---------------------------- MODULE Spec2Model ----------------------------
(***************************************************************************)
(* Model of the Liberdus notification service:                              *)
(*   - LiberdusNotificationService: the subscription registry               *)
(*     (subscriptions, addressToDevices), its POST /subscribe handler and   *)
(*     the snapshot file, with the suspension points of the async code;     *)
(*   - CollectorSubscriber: the reconnecting WebSocket client.              *)
(* Source: src/src/collectorSubscriber.ts.                                  *)
(***************************************************************************)
EXTENDS Integers, Sequences, FiniteSets, Bags, TLC

(***************************************************************************)
(* Bounds of the model.                                                     *)
(***************************************************************************)
\* Characters of a model address (a Shardus address has 64 hex characters).
AddrLen == 2
\* Longest address list of one subscribe request.
MaxAddrs == 2
\* Registry calls (subscribe requests) in flight at the same time.
MaxCalls == 2
\* Latest reading of the wall clock (new Date()).
MaxClock == 1
\* config.maxReconnectAttempts as configured for the model.
MaxReconnectAttempts == 2
\* WebSocket objects the client creates in one run.
MaxSockets == 3
\* Handler invocations recorded in one run.
MaxDelivered == 2
\* Requests that reach the registry in one run with interleaving.
MaxRequests == 2
\* Snapshot writes that fail in one run.
MaxWriteFailures == 1

(***************************************************************************)
(* Values.                                                                  *)
(***************************************************************************)
Devices == {"dev1", "dev2"}
Tokens == {"tokA", "tokB"}
\* expoPushToken: string | null
Null == "<null>"

\* An address is a string, modelled as the sequence of its characters.
Repeat(c) == [i \in 1..AddrLen |-> c]
MixedCase == [i \in 1..AddrLen |-> IF i = 1 THEN "A" ELSE "a"]
\* const DUMMY_ADDRESS = '0'.repeat(64)
DUMMY_ADDRESS == Repeat("0")
\* Address strings a request may carry; Repeat("z") is no hex string.
GoodAddrs == {MixedCase, Repeat("b")}
RawAddrs == GoodAddrs \cup {DUMMY_ADDRESS, Repeat("z")}

\* isShardusAddress (./transformAddress): a hex string of the address length.
HexChars == {"0", "a", "b", "A", "B"}
isShardusAddress(address) ==
  Len(address) = AddrLen /\ \A i \in DOMAIN address : address[i] \in HexChars

\* Expo.isExpoPushToken (expo-server-sdk) on the tokens of the model.
isExpoPushToken(token) == token \in Tokens
\* What a request may carry as expoPushToken ("" stands for a missing field).
RequestTokens == Tokens \cup {"", "not-a-token"}
\* What a request may carry as deviceToken ("" stands for a missing field).
RequestDevices == Devices \cup {""}

\* String.prototype.toLowerCase on the model alphabet.
LowerChar(c) == CASE c = "A" -> "a" [] c = "B" -> "b" [] OTHER -> c
toLowerCase(str) == [i \in DOMAIN str |-> LowerChar(str[i])]

\* addresses.map((addr) => addr.toLowerCase()), as the set of its elements.
Normalized(addresses) == {toLowerCase(addresses[i]) : i \in DOMAIN addresses}

\* The address arrays of a request: up to MaxAddrs entries, possibly none.
\* No entry is repeated: the handler and the registry treat a repeated entry
\* as they treat its first occurrence (includes, new Set, and a second pass of
\* unlinkOldDevices over an address finds nothing left to unlink).
AddressLists ==
  UNION {{as \in [1..n -> RawAddrs] :
            \A i \in 1..n, j \in 1..n : as[i] = as[j] => i = j} : n \in 0..MaxAddrs}

(***************************************************************************)
(* Maps (JavaScript Map): functions whose domain is the set of keys.        *)
(***************************************************************************)
EmptyMap == [x \in {} |-> {}]
MapSet(m, k, v) == [x \in DOMAIN m \cup {k} |-> IF x = k THEN v ELSE m[x]]
MapDelete(m, k) == [x \in DOMAIN m \ {k} |-> m[x]]

\* Array.from(set): some enumeration of the set's elements.
RECURSIVE ArrayFrom(_)
ArrayFrom(S) ==
  IF S = {} THEN <<>>
  ELSE LET x == CHOOSE y \in S : TRUE IN <<x>> \o ArrayFrom(S \ {x})

\* new Set(array)
NewSet(array) == {array[i] : i \in DOMAIN array}

VARIABLES
  subscriptions,     \* Map<string, Subscription>
  addressToDevices,  \* Map<string, Set<string>>
  dataFile,          \* content of subscriptions.json
  loading,           \* loadSubscriptions() is awaiting fs.readFile
  calls,             \* bag of subscribe requests suspended at an await
  clock,             \* new Date()
  failures,          \* snapshot writes that have failed
  requests,          \* requests that reached the registry (interleaved runs)
  pre,               \* history: subscriptions when the sequential call in flight began
  ws,                \* CollectorSubscriber.ws: 0 is null, else index into sockets
  sockets,           \* readyState of every WebSocket created so far
  reconnectAttempts,
  isReconnecting,
  timers,            \* pending setTimeout(() => this.connect()) callbacks
  dataHandler,
  delivered,         \* history: invocations of the data handler
  uncaught,          \* an exception escaped an event callback
  response,          \* history: what POST /subscribe answered last (Null: nothing yet, or pending)
  fanout,            \* the fan-out of notifications in progress, or the last one
  awaiting,          \* sendNotification calls suspended at expo.sendPushNotificationsAsync
  invoked,           \* history: provider invocations per device in this fan-out
  results,           \* history: what sendNotification gave per device in this fan-out
  shutdown           \* history: disconnect() ended the open connection, no connect() since

registryVars == <<subscriptions, addressToDevices, dataFile, loading, calls,
                  clock, failures>>
clientVars == <<ws, sockets, reconnectAttempts, isReconnecting, timers,
                dataHandler, delivered, uncaught>>
dispatchVars == <<fanout, awaiting, invoked, results>>
outputVars == <<response, dispatchVars, shutdown>>
vars == <<registryVars, requests, pre, clientVars, outputVars>>

(***************************************************************************)
(* The snapshot file.                                                       *)
(***************************************************************************)
\* saveSubscriptions builds `data` (address sets as arrays) and stringifies it.
Serialize(subs, now) ==
  [subscriptions |->
     [d \in DOMAIN subs |->
        [addresses |-> ArrayFrom(subs[d].addresses),
         expoPushToken |-> subs[d].expoPushToken,
         createdAt |-> subs[d].createdAt]],
   lastUpdated |-> now]

EmptyData == [subscriptions |-> EmptyMap, lastUpdated |-> 0]
FileAbsent == [kind |-> "ENOENT", data |-> EmptyData]
FileGarbage == [kind |-> "garbage", data |-> EmptyData]
FileOf(data) == [kind |-> "json", data |-> data]

\* A snapshot an earlier run of the service left behind.
EarlierSubscriptions ==
  [d \in {"dev1"} |->
     [addresses |-> {Repeat("a")}, expoPushToken |-> "tokA", createdAt |-> 0]]
InitialFiles == {FileAbsent, FileGarbage, FileOf(Serialize(EarlierSubscriptions, 0))}

(***************************************************************************)
(* Registry: the synchronous pieces of the code.                            *)
(***************************************************************************)
Registry(subs, index) == [subs |-> subs, index |-> index]

\* UnlinkAddress with the emptied subscription left in place.
UnlinkAddressKeepsEmpty(reg, deviceToken, address, expoPushToken) ==
  IF address \notin DOMAIN reg.index THEN reg
  ELSE
    LET existingDevices == reg.index[address]
        moved == {o \in existingDevices \ {deviceToken} :
                    /\ o \in DOMAIN reg.subs
                    /\ reg.subs[o].expoPushToken = expoPushToken}
        subs2 == [o \in DOMAIN reg.subs |->
                    IF o \in moved
                    THEN [reg.subs[o] EXCEPT !.addresses = @ \ {address}]
                    ELSE reg.subs[o]]
        left == existingDevices \ moved
        index2 == IF moved # {} /\ left = {}
                  THEN MapDelete(reg.index, address)
                  ELSE [reg.index EXCEPT ![address] = left]
    IN Registry(subs2, index2)

\* UnlinkAddress without the comparison of push tokens.
UnlinkAddressAnyToken(reg, deviceToken, address, expoPushToken) ==
  IF address \notin DOMAIN reg.index THEN reg
  ELSE
    LET existingDevices == reg.index[address]
        moved == {o \in existingDevices \ {deviceToken} : o \in DOMAIN reg.subs}
        stripped == [o \in DOMAIN reg.subs |->
                       IF o \in moved
                       THEN [reg.subs[o] EXCEPT !.addresses = @ \ {address}]
                       ELSE reg.subs[o]]
        kept == {o \in DOMAIN stripped : ~(o \in moved /\ stripped[o].addresses = {})}
        subs2 == [o \in kept |-> stripped[o]]
        left == existingDevices \ moved
        index2 == IF moved # {} /\ left = {}
                  THEN MapDelete(reg.index, address)
                  ELSE [reg.index EXCEPT ![address] = left]
    IN Registry(subs2, index2)

\* One pass of the outer loop of unlinkOldDevices for `address`.  The inner
\* loop treats each other device on its own, so its order does not matter.
UnlinkAddress(reg, deviceToken, address, expoPushToken) ==
  IF address \notin DOMAIN reg.index THEN reg
  ELSE
    LET existingDevices == reg.index[address]
        moved == {o \in existingDevices \ {deviceToken} :
                    /\ o \in DOMAIN reg.subs
                    /\ reg.subs[o].expoPushToken = expoPushToken}
        stripped == [o \in DOMAIN reg.subs |->
                       IF o \in moved
                       THEN [reg.subs[o] EXCEPT !.addresses = @ \ {address}]
                       ELSE reg.subs[o]]
        kept == {o \in DOMAIN stripped : ~(o \in moved /\ stripped[o].addresses = {})}
        subs2 == [o \in kept |-> stripped[o]]
        left == existingDevices \ moved
        index2 == IF moved # {} /\ left = {}
                  THEN MapDelete(reg.index, address)
                  ELSE [reg.index EXCEPT ![address] = left]
    IN Registry(subs2, index2)

RECURSIVE UnlinkLoopRaw(_, _, _, _, _)
UnlinkLoopRaw(reg, deviceToken, addresses, expoPushToken, i) ==
  IF i > Len(addresses) THEN reg
  ELSE UnlinkLoopRaw(UnlinkAddress(reg, deviceToken, addresses[i], expoPushToken),
                     deviceToken, addresses, expoPushToken, i + 1)

\* unlinkOldDevices looking the addresses up as the request spells them.
unlinkOldDevicesRaw(reg, deviceToken, addresses, expoPushToken) ==
  UnlinkLoopRaw(reg, deviceToken, addresses, expoPushToken, 1)

RECURSIVE UnlinkLoop(_, _, _, _, _)
UnlinkLoop(reg, deviceToken, addresses, expoPushToken, i) ==
  IF i > Len(addresses) THEN reg
  ELSE UnlinkLoop(UnlinkAddress(reg, deviceToken, toLowerCase(addresses[i]),
                                expoPushToken),
                  deviceToken, addresses, expoPushToken, i + 1)

unlinkOldDevices(reg, deviceToken, addresses, expoPushToken) ==
  UnlinkLoop(reg, deviceToken, addresses, expoPushToken, 1)

\* RemoveEntries with the index left as it was.
RemoveEntriesKeepsIndex(reg, deviceToken) ==
  Registry(MapDelete(reg.subs, deviceToken), reg.index)

\* removeSubscription up to its await, for a device that has a subscription.
RemoveEntries(reg, deviceToken) ==
  LET subscription == reg.subs[deviceToken]
      touched == subscription.addresses \cap DOMAIN reg.index
      emptied == {a \in touched : reg.index[a] \ {deviceToken} = {}}
      index2 == [a \in DOMAIN reg.index \ emptied |->
                   IF a \in touched THEN reg.index[a] \ {deviceToken}
                   ELSE reg.index[a]]
  IN Registry(MapDelete(reg.subs, deviceToken), index2)

\* removeSubscription up to its await: a device without a subscription makes
\* it return at once.
removeSubscription(reg, deviceToken) ==
  IF deviceToken \in DOMAIN reg.subs THEN RemoveEntries(reg, deviceToken) ELSE reg

\* addSubscription from "Create new subscription" to the save.
InstallSubscription(reg, deviceToken, addresses, expoPushToken, now) ==
  LET addressSet == Normalized(addresses)
      subs2 == MapSet(reg.subs, deviceToken,
                      [addresses |-> addressSet,
                       expoPushToken |-> expoPushToken,
                       createdAt |-> now])
      index2 == [a \in DOMAIN reg.index \cup addressSet |->
                   IF a \in addressSet
                   THEN (IF a \in DOMAIN reg.index THEN reg.index[a] ELSE {})
                          \cup {deviceToken}
                   ELSE reg.index[a]]
  IN Registry(subs2, index2)

\* getDevicesForAddress(address): addressToDevices.get(address) || new Set()
getDevicesForAddress(address) ==
  IF address \in DOMAIN addressToDevices THEN addressToDevices[address] ELSE {}


(***************************************************************************)
(* Initial state: the constructors have run; loadSubscriptions() was        *)
(* started and is suspended at its readFile.                                *)
(***************************************************************************)
Constructed ==
  /\ subscriptions = EmptyMap
  /\ addressToDevices = EmptyMap
  /\ loading = TRUE
  /\ calls = EmptyBag
  /\ clock = 0
  /\ failures = 0
  /\ requests = 0
  /\ pre = EmptyMap
  /\ ws = 0
  /\ sockets = <<>>
  /\ reconnectAttempts = 0
  /\ isReconnecting = FALSE
  /\ timers = 0
  /\ dataHandler = Null
  /\ delivered = <<>>
  /\ uncaught = FALSE
  /\ response = Null
  /\ fanout = [kind |-> "none", phase |-> "idle", targets |-> <<>>, at |-> 0]
  /\ awaiting = {}
  /\ invoked = [d \in Devices |-> 0]
  /\ results = EmptyMap
  /\ shutdown = FALSE

Init == dataFile \in InitialFiles /\ Constructed

(***************************************************************************)
(* loadSubscriptions, from the completion of readFile to its end.           *)
(***************************************************************************)
\* Restore with createdAt taken from the initial clock instead of the file.
RestoreStamped(subs, saved) ==
  [d \in DOMAIN subs \cup DOMAIN saved |->
     IF d \in DOMAIN saved
     THEN [addresses |-> NewSet(saved[d].addresses),
           expoPushToken |-> saved[d].expoPushToken,
           createdAt |-> 0]
     ELSE subs[d]]

\* "Restore subscriptions": subscriptions.set for every entry of the file.
Restore(subs, saved) ==
  [d \in DOMAIN subs \cup DOMAIN saved |->
     IF d \in DOMAIN saved
     THEN [addresses |-> NewSet(saved[d].addresses),
           expoPushToken |-> saved[d].expoPushToken,
           createdAt |-> saved[d].createdAt]
     ELSE subs[d]]

\* "Rebuild address-to-device mapping": adds every claim of every subscription.
Rebuild(subs, index) ==
  LET claimed == UNION {subs[d].addresses : d \in DOMAIN subs}
  IN [a \in DOMAIN index \cup claimed |->
        (IF a \in DOMAIN index THEN index[a] ELSE {})
          \cup {d \in DOMAIN subs : a \in subs[d].addresses}]

LoadFinish ==
  /\ loading
  /\ loading' = FALSE
  /\ IF dataFile.kind = "json"
     THEN LET subs2 == Restore(subscriptions, dataFile.data.subscriptions)
          IN /\ subscriptions' = subs2
             /\ addressToDevices' = Rebuild(subs2, addressToDevices)
     ELSE UNCHANGED <<subscriptions, addressToDevices>>
  /\ UNCHANGED <<dataFile, calls, clock, failures>>

(***************************************************************************)
(* POST /subscribe.                                                         *)
(***************************************************************************)
\* Validate with the push token checked before the DUMMY_ADDRESS branch.
ValidateTokenFirst(deviceToken, addresses, expoPushToken) ==
  IF deviceToken = "" THEN "MISSING_DEVICE_TOKEN"
  ELSE IF Len(addresses) = 0 THEN "MISSING_ADDRESSES"
  ELSE IF \E i \in DOMAIN addresses : ~isShardusAddress(addresses[i])
    THEN "INVALID_ADDRESS"
  ELSE IF expoPushToken = "" \/ ~isExpoPushToken(expoPushToken)
    THEN "INVALID_EXPO_TOKEN"
  ELSE IF \E i \in DOMAIN addresses : addresses[i] = DUMMY_ADDRESS THEN "REMOVE"
  ELSE "ADD"

\* Validate with the DUMMY_ADDRESS branch taken before the addresses are checked.
ValidateDummyFirst(deviceToken, addresses, expoPushToken) ==
  IF deviceToken = "" THEN "MISSING_DEVICE_TOKEN"
  ELSE IF Len(addresses) = 0 THEN "MISSING_ADDRESSES"
  ELSE IF \E i \in DOMAIN addresses : addresses[i] = DUMMY_ADDRESS THEN "REMOVE"
  ELSE IF \E i \in DOMAIN addresses : ~isShardusAddress(addresses[i])
    THEN "INVALID_ADDRESS"
  ELSE IF expoPushToken = "" \/ ~isExpoPushToken(expoPushToken)
    THEN "INVALID_EXPO_TOKEN"
  ELSE "ADD"

\* The validation of the handler, in its order; "" is a missing field.
Validate(deviceToken, addresses, expoPushToken) ==
  IF deviceToken = "" THEN "MISSING_DEVICE_TOKEN"
  ELSE IF Len(addresses) = 0 THEN "MISSING_ADDRESSES"
  ELSE IF \E i \in DOMAIN addresses : ~isShardusAddress(addresses[i])
    THEN "INVALID_ADDRESS"
  ELSE IF \E i \in DOMAIN addresses : addresses[i] = DUMMY_ADDRESS THEN "REMOVE"
  ELSE IF expoPushToken = "" \/ ~isExpoPushToken(expoPushToken)
    THEN "INVALID_EXPO_TOKEN"
  ELSE "ADD"

Call(pc, deviceToken, addresses, expoPushToken, data) ==
  [pc |-> pc, deviceToken |-> deviceToken, addresses |-> addresses,
   expoPushToken |-> expoPushToken, data |-> data]

Suspend(call) == calls (+) SetToBag({call})
Resume(call) == calls (-) SetToBag({call})
InFlight == BagToSet(calls)
Current == Registry(subscriptions, addressToDevices)

\* A request rejected with status 400: the handler returns before it touches
\* the registry, whatever the request was.
Requests == RequestDevices \X AddressLists \X RequestTokens
RejectedRequests ==
  {r \in Requests : Validate(r[1], r[2], r[3]) \notin {"ADD", "REMOVE"}}
\* The requests that reach removeSubscription, and those that reach
\* addSubscription.
RemoveRequests == {r \in Requests : Validate(r[1], r[2], r[3]) = "REMOVE"}
AddRequests == {r \in Requests : Validate(r[1], r[2], r[3]) = "ADD"}
\* The DUMMY_ADDRESS branch reads nothing of the request but its device token:
\* one request stands for all that reach the branch with that device token.
RemoveDevices == {r[1] : r \in RemoveRequests}
RemoveRequestFor ==
  [deviceToken \in RemoveDevices |-> CHOOSE r \in RemoveRequests : r[1] = deviceToken]

SubscribeRejected ==
  /\ RejectedRequests # {}
  /\ UNCHANGED registryVars

\* SubscribeRemove with a removeSubscription that saves also when it found no
\* subscription.
SubscribeRemoveAlwaysSaves(deviceToken, addresses, expoPushToken) ==
  /\ Validate(deviceToken, addresses, expoPushToken) = "REMOVE"
  /\ BagCardinality(calls) < MaxCalls
  /\ LET reg == IF deviceToken \in DOMAIN subscriptions
                THEN RemoveEntries(Current, deviceToken)
                ELSE Current
     IN /\ subscriptions' = reg.subs
        /\ addressToDevices' = reg.index
        /\ calls' = Suspend(Call("remove_save", deviceToken, <<>>, "",
                                  Serialize(reg.subs, clock)))
  /\ UNCHANGED <<dataFile, loading, clock, failures>>

\* The DUMMY_ADDRESS branch: removeSubscription up to its await (or its return).
\* Nothing reads the request's addresses and push token after this point, so
\* the suspended call does not carry them.
SubscribeRemove(deviceToken, addresses, expoPushToken) ==
  /\ Validate(deviceToken, addresses, expoPushToken) = "REMOVE"
  /\ IF deviceToken \in DOMAIN subscriptions
     THEN LET reg == RemoveEntries(Current, deviceToken)
          IN /\ BagCardinality(calls) < MaxCalls
             /\ subscriptions' = reg.subs
             /\ addressToDevices' = reg.index
             /\ calls' = Suspend(Call("remove_save", deviceToken, <<>>, "",
                                       Serialize(reg.subs, clock)))
     ELSE UNCHANGED <<subscriptions, addressToDevices, calls>>
  /\ UNCHANGED <<dataFile, loading, clock, failures>>

\* addSubscription up to its first await of a file write: unlinkOldDevices,
\* then removeSubscription, which either suspends in saveSubscriptions or
\* returns at once, in which case the subscription is installed and the call
\* suspends in its own saveSubscriptions.
SubscribeAdd(deviceToken, addresses, expoPushToken) ==
  /\ Validate(deviceToken, addresses, expoPushToken) = "ADD"
  /\ BagCardinality(calls) < MaxCalls
  /\ LET unlinked == unlinkOldDevices(Current, deviceToken, addresses, expoPushToken)
     IN IF deviceToken \in DOMAIN unlinked.subs
        THEN LET reg == RemoveEntries(unlinked, deviceToken)
             IN /\ subscriptions' = reg.subs
                /\ addressToDevices' = reg.index
                /\ calls' = Suspend(Call("add_remove_save", deviceToken, addresses,
                                          expoPushToken, Serialize(reg.subs, clock)))
        ELSE LET reg == InstallSubscription(unlinked, deviceToken, addresses,
                                            expoPushToken, clock)
             IN /\ subscriptions' = reg.subs
                /\ addressToDevices' = reg.index
                /\ calls' = Suspend(Call("add_save", deviceToken, addresses,
                                          expoPushToken, Serialize(reg.subs, clock)))
  /\ UNCHANGED <<dataFile, loading, clock, failures>>

\* WriteSettles for a saveSubscriptions that does not await its write.
WriteNotAwaited(call, ok) ==
  /\ ok
  /\ UNCHANGED <<dataFile, failures>>

\* fs.writeFile settles: the file holds the data, or the write failed and
\* saveSubscriptions logged the error.  fs.writeFile writes the file in place
\* (it opens it with flag 'w'): a write that fails when opening the file leaves
\* the file as it was, one that fails later leaves it empty or cut short.
WriteSettles(call, ok) ==
  IF ok
  THEN dataFile' = FileOf(call.data) /\ UNCHANGED failures
  ELSE /\ failures < MaxWriteFailures
       /\ failures' = failures + 1
       /\ dataFile' \in {dataFile, FileGarbage}

\* The write of removeSubscription inside addSubscription settles; the call
\* goes on to install the subscription and suspends in saveSubscriptions.
AddResume(call, ok) ==
  /\ call \in InFlight
  /\ call.pc = "add_remove_save"
  /\ WriteSettles(call, ok)
  /\ LET reg == InstallSubscription(Current, call.deviceToken, call.addresses,
                                     call.expoPushToken, clock)
     IN /\ subscriptions' = reg.subs
        /\ addressToDevices' = reg.index
        /\ calls' = Resume(call) (+)
                       SetToBag({Call("add_save", call.deviceToken, call.addresses,
                                      call.expoPushToken, Serialize(reg.subs, clock))})
  /\ UNCHANGED <<loading, clock>>

\* The last write of a call settles and the handler responds.
CallFinish(call, ok) ==
  /\ call \in InFlight
  /\ call.pc \in {"add_save", "remove_save"}
  /\ WriteSettles(call, ok)
  /\ calls' = Resume(call)
  /\ UNCHANGED <<subscriptions, addressToDevices, loading, clock>>

\* Time passes.
Tick ==
  /\ clock < MaxClock
  /\ clock' = clock + 1
  /\ UNCHANGED <<subscriptions, addressToDevices, dataFile, loading, calls, failures>>

(***************************************************************************)
(* The registry with requests interleaving at their awaits.                 *)
(***************************************************************************)
otherThanRegistry == <<pre, clientVars, outputVars>>

RLoadFinish == LoadFinish /\ UNCHANGED <<requests, otherThanRegistry>>
RRejected == SubscribeRejected /\ UNCHANGED <<requests, otherThanRegistry>>
RRemove ==
  /\ requests < MaxRequests
  /\ \E d \in RemoveDevices :
       LET r == RemoveRequestFor[d] IN SubscribeRemove(r[1], r[2], r[3])
  /\ requests' = requests + 1
  /\ UNCHANGED otherThanRegistry
RAdd ==
  /\ requests < MaxRequests
  /\ \E r \in AddRequests : SubscribeAdd(r[1], r[2], r[3])
  /\ requests' = requests + 1
  /\ UNCHANGED otherThanRegistry
RAddResume ==
  /\ \E call \in InFlight, ok \in BOOLEAN : AddResume(call, ok)
  /\ UNCHANGED <<requests, otherThanRegistry>>
RCallFinish ==
  /\ \E call \in InFlight, ok \in BOOLEAN : CallFinish(call, ok)
  /\ UNCHANGED <<requests, otherThanRegistry>>
RTick == Tick /\ UNCHANGED <<requests, otherThanRegistry>>

RegistryNext ==
  \/ RLoadFinish
  \/ RRejected
  \/ RRemove
  \/ RAdd
  \/ RAddResume
  \/ RCallFinish
  \/ RTick
SpecRegistry == Init /\ [][RegistryNext]_vars

(***************************************************************************)
(* The same, for a service whose startup load has finished before it serves *)
(* the first request.                                                       *)
(***************************************************************************)
VLoadFinish == RLoadFinish
VRejected == ~loading /\ RRejected
VRemove == ~loading /\ RRemove
VAdd == ~loading /\ RAdd
VAddResume == RAddResume
VCallFinish == RCallFinish
VTick == RTick

ServingNext ==
  \/ VLoadFinish
  \/ VRejected
  \/ VRemove
  \/ VAdd
  \/ VAddResume
  \/ VCallFinish
  \/ VTick
SpecServing == Init /\ [][ServingNext]_vars

(***************************************************************************)
(* The registry with every call run to completion before the next starts,   *)
(* and the startup load finished before the first call.  `pre` holds the    *)
(* subscriptions the call in flight found.                                  *)
(***************************************************************************)
Quiescent == ~loading /\ calls = EmptyBag

SLoadFinish == LoadFinish /\ UNCHANGED <<requests, otherThanRegistry>>
SRejected == Quiescent /\ SubscribeRejected /\ UNCHANGED <<requests, otherThanRegistry>>
SRemove ==
  /\ Quiescent
  /\ \E d \in RemoveDevices :
       LET r == RemoveRequestFor[d] IN SubscribeRemove(r[1], r[2], r[3])
  /\ pre' = IF calls' = EmptyBag THEN EmptyMap ELSE subscriptions
  /\ UNCHANGED <<requests, clientVars, outputVars>>
SAdd ==
  /\ Quiescent
  /\ \E r \in AddRequests : SubscribeAdd(r[1], r[2], r[3])
  /\ pre' = subscriptions
  /\ UNCHANGED <<requests, clientVars, outputVars>>
SAddResume ==
  /\ \E call \in InFlight, ok \in BOOLEAN : AddResume(call, ok)
  /\ UNCHANGED <<requests, otherThanRegistry>>
SCallFinish ==
  /\ \E call \in InFlight, ok \in BOOLEAN : CallFinish(call, ok)
  /\ pre' = EmptyMap
  /\ UNCHANGED <<requests, clientVars, outputVars>>
STick == Tick /\ UNCHANGED <<requests, otherThanRegistry>>

SequentialNext ==
  \/ SLoadFinish
  \/ SRejected
  \/ SRemove
  \/ SAdd
  \/ SAddResume
  \/ SCallFinish
  \/ STick
SpecSequential == Init /\ [][SequentialNext]_vars

(***************************************************************************)
(* The same sequential service as its client sees it: `response` holds the  *)
(* answer to the most recent request, Null while that request is pending.   *)
(* The requests follow each other within one reading of the clock.          *)
(***************************************************************************)
\* The codes of the 400 responses, and the requests answered with each.
ErrorCodes ==
  {"MISSING_DEVICE_TOKEN", "MISSING_ADDRESSES", "INVALID_ADDRESS", "INVALID_EXPO_TOKEN"}
RejectedWith ==
  [code \in ErrorCodes |-> {r \in Requests : Validate(r[1], r[2], r[3]) = code}]

\* Some request is answered with status 400 and `code`: the handler returns
\* before it touches the registry.
SubscribeRejectedWith(code) ==
  /\ RejectedWith[code] # {}
  /\ response' = code
  /\ UNCHANGED registryVars

\* A request that reaches removeSubscription: answered at once when the device
\* had no subscription, after the save otherwise.
BoundaryRemove(deviceToken, addresses, expoPushToken) ==
  /\ SubscribeRemove(deviceToken, addresses, expoPushToken)
  /\ response' = IF calls' = EmptyBag THEN "REMOVED" ELSE Null

\* A request that reaches addSubscription: answered after the save.
BoundaryAdd(deviceToken, addresses, expoPushToken) ==
  /\ SubscribeAdd(deviceToken, addresses, expoPushToken)
  /\ response' = Null

otherThanBoundary == <<requests, pre, clientVars, dispatchVars, shutdown>>

BLoadFinish == LoadFinish /\ UNCHANGED <<response, otherThanBoundary>>
BRejected ==
  /\ Quiescent
  /\ \E code \in ErrorCodes : SubscribeRejectedWith(code)
  /\ UNCHANGED otherThanBoundary
BRemove ==
  /\ Quiescent
  /\ \E d \in RemoveDevices :
       LET r == RemoveRequestFor[d] IN BoundaryRemove(r[1], r[2], r[3])
  /\ UNCHANGED otherThanBoundary
BAdd ==
  /\ Quiescent
  /\ \E r \in AddRequests : BoundaryAdd(r[1], r[2], r[3])
  /\ UNCHANGED otherThanBoundary
BAddResume ==
  /\ \E call \in InFlight, ok \in BOOLEAN : AddResume(call, ok)
  /\ UNCHANGED <<response, otherThanBoundary>>
BCallFinish ==
  /\ \E call \in InFlight, ok \in BOOLEAN :
       /\ CallFinish(call, ok)
       /\ response' = IF call.pc = "add_save" THEN "ADDED" ELSE "REMOVED"
  /\ UNCHANGED otherThanBoundary

BoundaryNext ==
  \/ BLoadFinish
  \/ BRejected
  \/ BRemove
  \/ BAdd
  \/ BAddResume
  \/ BCallFinish
SpecBoundary == Init /\ [][BoundaryNext]_vars

(***************************************************************************)
(* Notifications.  One fan-out is followed at a time: the GET /broadcast    *)
(* loop, the sends for one receipt, or the single send of                   *)
(* POST /test-notification.  sendNotification reads the registry and        *)
(* changes nothing, so fan-outs that overlap do not affect each other.      *)
(***************************************************************************)
\* What the promise of expo.sendPushNotificationsAsync settles with.
ProviderOutcomes == {"no_ticket", "error_ticket", "throws", "ok"}

\* What a sendNotification call gives: a result ({success, error} or
\* {success, ticket}, the ticket named by the push token it was issued for),
\* or an exception.
Returned(success, info) == [outcome |-> "returned", success |-> success, info |-> info]
Raised == [outcome |-> "raised", success |-> FALSE, info |-> "thrown"]
\* The call is suspended at `await this.expo.sendPushNotificationsAsync`.
Awaits(to) == [outcome |-> "awaits", success |-> FALSE, info |-> to]

Send(deviceToken, to) == [deviceToken |-> deviceToken, to |-> to]

\* sendNotification up to its await: the two local failures, or the message
\* built for the push token stored now.
sendNotificationBegins(subs, deviceToken) ==
  IF deviceToken \notin DOMAIN subs
    THEN Returned(FALSE, "No subscription found")
  ELSE IF subs[deviceToken].expoPushToken \in {Null, ""}
    THEN Returned(FALSE, "No Expo push token")
  ELSE Awaits(subs[deviceToken].expoPushToken)

\* sendNotificationSettles without the try/catch of sendNotification.
sendNotificationUncaught(send, outcome) ==
  CASE outcome = "no_ticket" -> Returned(FALSE, "No tickets returned")
    [] outcome = "error_ticket" -> Returned(FALSE, "ticket error")
    [] outcome = "throws" -> Raised
    [] outcome = "ok" -> Returned(TRUE, send.to)

\* sendNotification from the settling of the provider's promise to its return.
sendNotificationSettles(send, outcome) ==
  CASE outcome = "no_ticket" -> Returned(FALSE, "No tickets returned")
    [] outcome = "error_ticket" -> Returned(FALSE, "ticket error")
    [] outcome = "throws" -> Returned(FALSE, "thrown")
    [] outcome = "ok" -> Returned(TRUE, send.to)

\* A loop that gives up at the first failed result.
NextDeviceStopsOnFailure(result, i, n) == IF result.success THEN i + 1 ELSE n + 1

\* The for loop of sendTestNotificationToAll after the result for allTokens[i]:
\* a failed result is logged and the loop goes on.
NextDevice(result, i, n) == i + 1

\* The loop from allTokens[i] to the first device whose send awaits the
\* provider (a send that fails locally returns without leaving the event
\* loop's turn), or to the end of the list.
RECURSIVE BroadcastLoop(_, _, _, _)
BroadcastLoop(subs, targets, i, res) ==
  IF i > Len(targets)
  THEN [at |-> i, results |-> res]
  ELSE LET r == sendNotificationBegins(subs, targets[i])
       IN IF r.outcome = "awaits"
          THEN [at |-> i, results |-> res]
          ELSE BroadcastLoop(subs, targets, NextDevice(r, i, Len(targets)),
                             MapSet(res, targets[i], r))

Fanout(kind, phase, targets, at) ==
  [kind |-> kind, phase |-> phase, targets |-> targets, at |-> at]

\* The loop has stopped at `loop.at`: at the end of the list, or with the
\* provider invoked for the device there.
BroadcastSuspends(targets, loop, inv) ==
  /\ results' = loop.results
  /\ IF loop.at > Len(targets)
     THEN /\ fanout' = Fanout("broadcast", "done", targets, loop.at)
          /\ awaiting' = {}
          /\ invoked' = inv
     ELSE LET d == targets[loop.at]
          IN /\ fanout' = Fanout("broadcast", "running", targets, loop.at)
             /\ awaiting' = {Send(d, subscriptions[d].expoPushToken)}
             /\ invoked' = [inv EXCEPT ![d] = @ + 1]

NoneInvoked == [d \in Devices |-> 0]

\* sendTestNotificationToAll is called (GET /broadcast, or the interval of
\* startTestNotifier).
BroadcastStart ==
  /\ fanout.phase # "running"
  /\ LET targets == ArrayFrom(DOMAIN subscriptions)
     IN BroadcastSuspends(targets, BroadcastLoop(subscriptions, targets, 1, EmptyMap),
                          NoneInvoked)

\* The provider settles for the device the broadcast waits for, and the loop
\* goes on; an exception out of sendNotification would end the loop.
BroadcastResumes(send, outcome) ==
  /\ fanout.kind = "broadcast"
  /\ send \in awaiting
  /\ LET r == sendNotificationSettles(send, outcome)
         res == MapSet(results, send.deviceToken, r)
         n == Len(fanout.targets)
     IN IF r.outcome = "raised"
        THEN /\ fanout' = Fanout("broadcast", "aborted", fanout.targets, fanout.at)
             /\ awaiting' = {}
             /\ results' = res
             /\ UNCHANGED invoked
        ELSE BroadcastSuspends(fanout.targets,
                               BroadcastLoop(subscriptions, fanout.targets,
                                             NextDevice(r, fanout.at, n), res),
                               invoked)

\* Array.from(deviceTokens).map(sendNotification): every call runs to its
\* await (or to its local failure) before the caller awaits any of them.
SendToEach(kind, targets) ==
  LET begins == [d \in NewSet(targets) |-> sendNotificationBegins(subscriptions, d)]
      waiting == {d \in NewSet(targets) : begins[d].outcome = "awaits"}
  IN /\ fanout.phase # "running"
     /\ awaiting' = {Send(d, begins[d].info) : d \in waiting}
     /\ results' = [d \in NewSet(targets) \ waiting |-> begins[d]]
     /\ invoked' = [d \in Devices |-> IF d \in waiting THEN 1 ELSE 0]
     /\ fanout' = Fanout(kind, IF waiting = {} THEN "done" ELSE "running",
                         targets, Len(targets) + 1)

\* The addresses receipts name as recipient.
ReceiptAddresses == {Repeat("a"), Repeat("b"), MixedCase}

\* processAppReceiptData for a successful message or transfer to `to`.
ReceiptArrives(to) ==
  /\ getDevicesForAddress(to) # {}
  /\ SendToEach("receipt", ArrayFrom(getDevicesForAddress(to)))

\* POST /test-notification for `deviceToken`.
TestNotification(deviceToken) == SendToEach("test", <<deviceToken>>)

\* The provider settles for one of the sends made at once; Promise.all (or
\* the handler) gets the result when all have settled.
SendSettles(send, outcome) ==
  /\ fanout.kind \in {"receipt", "test"}
  /\ send \in awaiting
  /\ awaiting' = awaiting \ {send}
  /\ results' = MapSet(results, send.deviceToken, sendNotificationSettles(send, outcome))
  /\ fanout' = [fanout EXCEPT !.phase = IF awaiting' = {} THEN "done" ELSE "running"]
  /\ UNCHANGED invoked

\* A snapshot in which dev2 has no push token (Subscription.expoPushToken is
\* string | null).
TokenlessSubscriptions ==
  [d \in Devices |->
     [addresses |-> {Repeat("a")},
      expoPushToken |-> IF d = "dev1" THEN "tokA" ELSE Null,
      createdAt |-> 0]]
DispatchFiles ==
  {FileAbsent, FileOf(Serialize(EarlierSubscriptions, 0)),
   FileOf(Serialize(TokenlessSubscriptions, 0))}
DispatchInit == dataFile \in DispatchFiles /\ Constructed

\* The registry serves one request after the other while notifications are
\* sent; the writes of this specification succeed.
otherThanDispatch == <<pre, clientVars, response, shutdown>>

DLoadFinish == LoadFinish /\ UNCHANGED <<requests, dispatchVars, otherThanDispatch>>
DRemove ==
  /\ Quiescent
  /\ requests < MaxRequests
  /\ requests' = requests + 1
  /\ \E d \in RemoveDevices :
       LET r == RemoveRequestFor[d] IN SubscribeRemove(r[1], r[2], r[3])
  /\ UNCHANGED <<dispatchVars, otherThanDispatch>>
DAdd ==
  /\ Quiescent
  /\ requests < MaxRequests
  /\ requests' = requests + 1
  /\ \E r \in AddRequests : SubscribeAdd(r[1], r[2], r[3])
  /\ UNCHANGED <<dispatchVars, otherThanDispatch>>
DAddResume ==
  /\ \E call \in InFlight : AddResume(call, TRUE)
  /\ UNCHANGED <<requests, dispatchVars, otherThanDispatch>>
DCallFinish ==
  /\ \E call \in InFlight : CallFinish(call, TRUE)
  /\ UNCHANGED <<requests, dispatchVars, otherThanDispatch>>
DBroadcastStart ==
  /\ BroadcastStart
  /\ UNCHANGED <<registryVars, requests, otherThanDispatch>>
DBroadcastResumes ==
  /\ \E send \in awaiting, outcome \in ProviderOutcomes : BroadcastResumes(send, outcome)
  /\ UNCHANGED <<registryVars, requests, otherThanDispatch>>
DReceiptArrives ==
  /\ \E to \in ReceiptAddresses : ReceiptArrives(to)
  /\ UNCHANGED <<registryVars, requests, otherThanDispatch>>
DTestNotification ==
  /\ \E deviceToken \in Devices : TestNotification(deviceToken)
  /\ UNCHANGED <<registryVars, requests, otherThanDispatch>>
DSendSettles ==
  /\ \E send \in awaiting, outcome \in ProviderOutcomes : SendSettles(send, outcome)
  /\ UNCHANGED <<registryVars, requests, otherThanDispatch>>

DispatchNext ==
  \/ DLoadFinish
  \/ DRemove
  \/ DAdd
  \/ DAddResume
  \/ DCallFinish
  \/ DBroadcastStart
  \/ DBroadcastResumes
  \/ DReceiptArrives
  \/ DTestNotification
  \/ DSendSettles
SpecDispatch == DispatchInit /\ [][DispatchNext]_vars

(***************************************************************************)
(* CollectorSubscriber.                                                     *)
(*                                                                          *)
(* A WebSocket of the ws package is CONNECTING, OPEN, CLOSING or CLOSED.    *)
(* It emits 'open' when the handshake succeeds; it emits 'error' when the   *)
(* handshake or the connection fails, and is then already CLOSING; it emits *)
(* 'close' once, when it becomes CLOSED: after close(), after an error, or  *)
(* when an open connection is lost.                                         *)
(***************************************************************************)
Handlers == {"h1", "h2"}

\* Frames the server may send, as text, and what JSON.parse makes of each.
EnvelopeText == "{\"event\":\"/data/appReceipt\",\"data\":\"{}\"}"
NumberText == "42"
BrokenText == "{\"event\":"
Frames == {EnvelopeText, NumberText, BrokenText}
JSONparse(text) ==
  CASE text = EnvelopeText -> [throws |-> FALSE, envelope |-> TRUE]
    [] text = NumberText -> [throws |-> FALSE, envelope |-> FALSE]
    [] OTHER -> [throws |-> TRUE, envelope |-> FALSE]

\* WebSocket.close()
WsClose(readyState) ==
  IF readyState \in {"CONNECTING", "OPEN"} THEN "CLOSING" ELSE readyState

Live == {i \in DOMAIN sockets : sockets[i] \in {"CONNECTING", "OPEN"}}

\* The body of connect(): a new WebSocket, stored in this.ws.
NewSocket ==
  /\ Len(sockets) < MaxSockets
  /\ sockets' = Append(sockets, "CONNECTING")
  /\ ws' = Len(sockets) + 1

\* attemptReconnect giving up only above the maximum.
attemptReconnectAbove(flag, attempts, pending) ==
  IF flag \/ attempts > MaxReconnectAttempts
  THEN [isReconnecting |-> flag, reconnectAttempts |-> attempts, timers |-> pending]
  ELSE [isReconnecting |-> TRUE, reconnectAttempts |-> attempts + 1,
        timers |-> pending + 1]

\* attemptReconnect(): the flag, the counter and the pending timers after it.
attemptReconnect(flag, attempts, pending) ==
  IF flag \/ attempts >= MaxReconnectAttempts
  THEN [isReconnecting |-> flag, reconnectAttempts |-> attempts, timers |-> pending]
  ELSE [isReconnecting |-> TRUE, reconnectAttempts |-> attempts + 1,
        timers |-> pending + 1]

\* connect(), called by the owner of the client.
Connect ==
  /\ ~uncaught
  /\ NewSocket
  /\ UNCHANGED <<reconnectAttempts, isReconnecting, timers, dataHandler,
                 delivered, uncaught>>

\* The callback of setTimeout in attemptReconnect runs connect().
TimerFires ==
  /\ ~uncaught
  /\ timers > 0
  /\ timers' = timers - 1
  /\ NewSocket
  /\ UNCHANGED <<reconnectAttempts, isReconnecting, dataHandler, delivered, uncaught>>

\* disconnect()
Disconnect ==
  /\ ~uncaught
  /\ IF ws # 0
     THEN sockets' = [sockets EXCEPT ![ws] = WsClose(@)] /\ ws' = 0
     ELSE UNCHANGED <<sockets, ws>>
  /\ UNCHANGED <<reconnectAttempts, isReconnecting, timers, dataHandler,
                 delivered, uncaught>>

\* onData(callback)
OnData(callback) ==
  /\ ~uncaught
  /\ dataHandler' = callback
  /\ UNCHANGED <<ws, sockets, reconnectAttempts, isReconnecting, timers,
                 delivered, uncaught>>

\* OnOpen with an 'open' handler that leaves the attempt counter alone.
OnOpenKeepsCounter(s) ==
  /\ ~uncaught
  /\ sockets[s] = "CONNECTING"
  /\ sockets' = [sockets EXCEPT ![s] = "OPEN"]
  /\ isReconnecting' = FALSE
  /\ UNCHANGED <<ws, timers, reconnectAttempts, dataHandler, delivered, uncaught>>

\* Socket s emits 'open'.
OnOpen(s) ==
  /\ ~uncaught
  /\ sockets[s] = "CONNECTING"
  /\ sockets' = [sockets EXCEPT ![s] = "OPEN"]
  /\ reconnectAttempts' = 0
  /\ isReconnecting' = FALSE
  /\ UNCHANGED <<ws, timers, dataHandler, delivered, uncaught>>

\* Socket s emits 'error': the handler closes this.ws, whichever socket that is.
OnError(s) ==
  /\ ~uncaught
  /\ sockets[s] \in {"CONNECTING", "OPEN", "CLOSING"}
  /\ LET failed == [sockets EXCEPT ![s] = "CLOSING"]
     IN IF ws # 0
        THEN /\ sockets' = [failed EXCEPT ![ws] = WsClose(@)]
             /\ isReconnecting' = FALSE
        ELSE /\ sockets' = failed
             /\ UNCHANGED isReconnecting
  /\ UNCHANGED <<ws, reconnectAttempts, timers, dataHandler, delivered, uncaught>>

\* Socket s emits 'close'.
OnClose(s) ==
  /\ ~uncaught
  /\ sockets[s] \in {"OPEN", "CLOSING"}
  /\ sockets' = [sockets EXCEPT ![s] = "CLOSED"]
  /\ ws' = 0
  /\ LET r == attemptReconnect(isReconnecting, reconnectAttempts, timers)
     IN /\ isReconnecting' = r.isReconnecting
        /\ reconnectAttempts' = r.reconnectAttempts
        /\ timers' = r.timers
  /\ UNCHANGED <<dataHandler, delivered, uncaught>>

\* OnMessage with a handleMessage that calls the handler twice.
OnMessageTwice(s, text) ==
  /\ ~uncaught
  /\ sockets[s] = "OPEN"
  /\ IF JSONparse(text).throws
     THEN uncaught' = TRUE /\ UNCHANGED delivered
     ELSE /\ UNCHANGED uncaught
          /\ IF dataHandler # Null
             THEN /\ Len(delivered) + 1 < MaxDelivered
                  /\ delivered' = delivered \o
                                    <<[handler |-> dataHandler, text |-> text],
                                      [handler |-> dataHandler, text |-> text]>>
             ELSE UNCHANGED delivered
  /\ UNCHANGED <<ws, sockets, reconnectAttempts, isReconnecting, timers, dataHandler>>

\* Socket s emits 'message': JSON.parse, then handleMessage.
OnMessage(s, text) ==
  /\ ~uncaught
  /\ sockets[s] = "OPEN"
  /\ IF JSONparse(text).throws
     THEN uncaught' = TRUE /\ UNCHANGED delivered
     ELSE /\ UNCHANGED uncaught
          /\ IF dataHandler # Null
             THEN /\ Len(delivered) < MaxDelivered
                  /\ delivered' = Append(delivered,
                                         [handler |-> dataHandler, text |-> text])
             ELSE UNCHANGED delivered
  /\ UNCHANGED <<ws, sockets, reconnectAttempts, isReconnecting, timers, dataHandler>>

otherThanClient == <<registryVars, requests, pre, outputVars>>

CConnect == Connect /\ UNCHANGED otherThanClient
CTimerFires == TimerFires /\ UNCHANGED otherThanClient
CDisconnect == Disconnect /\ UNCHANGED otherThanClient
COnData == (\E h \in Handlers : OnData(h)) /\ UNCHANGED otherThanClient
COnOpen == (\E s \in DOMAIN sockets : OnOpen(s)) /\ UNCHANGED otherThanClient
COnError == (\E s \in DOMAIN sockets : OnError(s)) /\ UNCHANGED otherThanClient
COnClose == (\E s \in DOMAIN sockets : OnClose(s)) /\ UNCHANGED otherThanClient
COnMessage ==
  /\ \E s \in DOMAIN sockets, text \in Frames : OnMessage(s, text)
  /\ UNCHANGED otherThanClient

(***************************************************************************)
(* The client with its owner's shutdown followed: `shutdown` holds from a   *)
(* disconnect() that found the one connection open and no reconnect timer   *)
(* pending until the owner calls connect() again.                           *)
(***************************************************************************)
\* disconnect() is called on a client whose connection is open, with no other
\* socket alive and no reconnect timer pending.
DisconnectsOpen ==
  /\ ws # 0
  /\ sockets[ws] = "OPEN"
  /\ \A o \in DOMAIN sockets \ {ws} : sockets[o] = "CLOSED"
  /\ timers = 0

otherThanShutdown == <<registryVars, requests, pre, response, dispatchVars>>

HConnect == Connect /\ shutdown' = FALSE /\ UNCHANGED otherThanShutdown
HTimerFires == TimerFires /\ UNCHANGED <<shutdown, otherThanShutdown>>
HDisconnect ==
  /\ Disconnect
  /\ shutdown' = (shutdown \/ DisconnectsOpen)
  /\ UNCHANGED otherThanShutdown
HOnOpen ==
  /\ \E s \in DOMAIN sockets : OnOpen(s)
  /\ UNCHANGED <<shutdown, otherThanShutdown>>
HOnError ==
  /\ \E s \in DOMAIN sockets : OnError(s)
  /\ UNCHANGED <<shutdown, otherThanShutdown>>
HOnClose ==
  /\ \E s \in DOMAIN sockets : OnClose(s)
  /\ UNCHANGED <<shutdown, otherThanShutdown>>

ShutdownNext ==
  \/ HConnect
  \/ HTimerFires
  \/ HDisconnect
  \/ HOnOpen
  \/ HOnError
  \/ HOnClose
SpecShutdown == Init /\ [][ShutdownNext]_vars

ClientNext ==
  \/ CConnect
  \/ CTimerFires
  \/ CDisconnect
  \/ COnData
  \/ COnOpen
  \/ COnError
  \/ COnClose
  \/ COnMessage
SpecClient == Init /\ [][ClientNext]_vars

(***************************************************************************)
(* Properties.                                                              *)
(***************************************************************************)
AddCalls == {call \in InFlight : call.pc \in {"add_remove_save", "add_save"}}

\* The index is exactly the inverse of the subscriptions.
IsInverse(subs, index) ==
  /\ \A d \in DOMAIN subs : \A a \in subs[d].addresses :
       a \in DOMAIN index /\ d \in index[a]
  /\ \A a \in DOMAIN index : \A d \in index[a] :
       d \in DOMAIN subs /\ a \in subs[d].addresses

\* No empty entry on either side.
NoEmptyEntry(subs, index) ==
  /\ \A a \in DOMAIN index : index[a] # {}
  /\ \A d \in DOMAIN subs : subs[d].addresses # {}

\* C1 (SpecSequential): whenever every addSubscription/removeSubscription call
\* issued so far has run to completion, device d is in the index entry of
\* address a exactly if a is among d's addresses, and neither an index entry
\* nor a subscription is empty.
C1_IndexIsInverse ==
  calls = EmptyBag =>
    /\ IsInverse(subscriptions, addressToDevices)
    /\ NoEmptyEntry(subscriptions, addressToDevices)

\* Both devices subscribed, to the same address and one of them to a second
\* one, after a call that replaced or removed something has completed.
C1_Witness ==
  /\ Quiescent
  /\ DOMAIN subscriptions = Devices
  /\ \E a \in DOMAIN addressToDevices : addressToDevices[a] = Devices
  /\ \E a \in DOMAIN addressToDevices : Cardinality(addressToDevices[a]) = 1
  /\ clock = MaxClock

\* The add call of the step, when the step is the completion of one.
AddCompletes(call) ==
  /\ call \in InFlight
  /\ call.pc = "add_save"
  /\ calls' = Resume(call)

\* What C2 says of device A after addSubscription(B, addrs, P), `before` being
\* the subscriptions the call found.  "In addrs" is read as the code and the
\* claim's own example read it: after case-folding.
Reassigned(before, call, subs, index) ==
  \A A \in DOMAIN before \ {call.deviceToken} :
    before[A].expoPushToken = call.expoPushToken =>
      /\ \A A1 \in before[A].addresses \cap Normalized(call.addresses) :
           /\ A \in DOMAIN subs => A1 \notin subs[A].addresses
           /\ A1 \in DOMAIN index => A \notin index[A1]
           /\ before[A].addresses = {A1} => A \notin DOMAIN subs
      /\ \A a \in before[A].addresses \ Normalized(call.addresses) :
           /\ before[A].addresses \cap Normalized(call.addresses) # {}
              => (A \in DOMAIN subs /\ a \in subs[A].addresses)
           /\ before[A].addresses \cap Normalized(call.addresses) # {}
              => (a \in DOMAIN index /\ A \in index[a])

\* The scenario of the claim: dev1 holds 0xaa with tokA, dev2 asks for 0xAA.
ReassignScenario(before, call, subs, index) ==
  ( /\ DOMAIN before = {"dev1"}
    /\ before["dev1"].addresses = {Repeat("a")}
    /\ before["dev1"].expoPushToken = "tokA"
    /\ call.deviceToken = "dev2"
    /\ call.addresses = <<MixedCase>>
    /\ call.expoPushToken = "tokA" )
  => /\ Repeat("a") \in DOMAIN index
     /\ index[Repeat("a")] = {"dev2"}
     /\ "dev1" \notin DOMAIN subs

\* C2 (SpecSequential): when addSubscription(B, addrs, P) completes, a device
\* A # B that held push token P and an address A1 of addrs no longer has A1,
\* is not in the index entry of A1, has no subscription if A1 was its only
\* address, and still claims each of its addresses that is not in addrs; and
\* dev1 [0xAA] tokA followed by dev2 [0xAA] tokA leaves 0xaa to dev2 alone.
C2_Reassignment ==
  [][\A call \in InFlight :
       AddCompletes(call) =>
         /\ Reassigned(pre, call, subscriptions', addressToDevices')
         /\ ReassignScenario(pre, call, subscriptions', addressToDevices')]_vars

\* An add call about to complete that took one of two addresses from a device
\* with the same push token.
C2_Witness ==
  \E call \in InFlight :
    /\ call.pc = "add_save"
    /\ \E A \in DOMAIN pre \ {call.deviceToken} :
         /\ pre[A].expoPushToken = call.expoPushToken
         /\ pre[A].addresses \cap Normalized(call.addresses) # {}
         /\ pre[A].addresses \ Normalized(call.addresses) # {}
         /\ A \in DOMAIN subscriptions
         /\ subscriptions[A].addresses = pre[A].addresses \ Normalized(call.addresses)

\* C3 (SpecServing): no two distinct devices with the same non-null push
\* token have an address in common.
C3_NoSharedClaim ==
  \A d1 \in DOMAIN subscriptions, d2 \in DOMAIN subscriptions :
    ( /\ d1 # d2
      /\ subscriptions[d1].expoPushToken # Null
      /\ subscriptions[d1].expoPushToken = subscriptions[d2].expoPushToken )
    => subscriptions[d1].addresses \cap subscriptions[d2].addresses = {}

\* C4 (SpecSequential): while an addSubscription(D, newAddrs, P) call is in
\* flight, the registry a reader sees is either the one the call found or one
\* in which the new subscription of D is installed.
C4_AtomicToReaders ==
  \A call \in AddCalls :
    \/ subscriptions = pre
    \/ /\ call.deviceToken \in DOMAIN subscriptions
       /\ subscriptions[call.deviceToken].addresses = Normalized(call.addresses)
       /\ subscriptions[call.deviceToken].expoPushToken = call.expoPushToken

\* Address strings a lookup may be made with.
LookupAddrs == RawAddrs \cup {Repeat("a"), Repeat("A"), Repeat("B")}

\* C5 (SpecSequential): when addSubscription(d, addrs, p) completes,
\* getDevicesForAddress(a') contains d for every a' that differs only in
\* letter case from an address of addrs; and in every state
\* getDevicesForAddress is empty for an address no device claims.
C5_LookupFoldsCase ==
  /\ [][\A call \in InFlight :
          AddCompletes(call) =>
            \A i \in DOMAIN call.addresses, lookup \in LookupAddrs :
              toLowerCase(lookup) = toLowerCase(call.addresses[i])
                => call.deviceToken \in getDevicesForAddress(lookup)']_vars
  /\ [](\A lookup \in LookupAddrs :
          (\A d \in DOMAIN subscriptions :
             toLowerCase(lookup) \notin subscriptions[d].addresses)
            => getDevicesForAddress(lookup) = {})

\* C6 (SpecSequential): when addSubscription(D, S2, P) completes for a device
\* D that had the address set S1, D's subscription has exactly the normalized
\* addresses of S2 and D is in no index entry of an address of S1 that is not
\* among them.
C6_FullReplace ==
  [][\A call \in InFlight :
       (AddCompletes(call) /\ call.deviceToken \in DOMAIN pre) =>
         /\ call.deviceToken \in DOMAIN subscriptions'
         /\ subscriptions'[call.deviceToken].addresses = Normalized(call.addresses)
         /\ \A a \in pre[call.deviceToken].addresses \ Normalized(call.addresses) :
              a \in DOMAIN addressToDevices'
                => call.deviceToken \notin addressToDevices'[a]]_vars

\* An add call about to complete for a device that had an address it did not
\* ask for again, an address another device still claims.
C6_Witness ==
  \E call \in InFlight :
    /\ call.pc = "add_save"
    /\ call.deviceToken \in DOMAIN pre
    /\ call.deviceToken \in DOMAIN subscriptions
    /\ subscriptions[call.deviceToken].addresses = Normalized(call.addresses)
    /\ \E a \in pre[call.deviceToken].addresses \ Normalized(call.addresses) :
         /\ a \in DOMAIN addressToDevices
         /\ call.deviceToken \notin addressToDevices[a]

\* Socket s emits 'close' in this step.
Closes(s) == sockets[s] # "CLOSED" /\ sockets'[s] = "CLOSED"

\* C7 (SpecClient): the attempt counter never exceeds maxReconnectAttempts;
\* a timer is scheduled only by raising the counter from below the maximum;
\* and a close event that finds the counter at the maximum schedules no
\* timer, creates no connection and leaves the client without a connection.
C7_BoundedReconnect ==
  /\ [](reconnectAttempts <= MaxReconnectAttempts)
  /\ [][timers' > timers =>
          /\ reconnectAttempts < MaxReconnectAttempts
          /\ reconnectAttempts' = reconnectAttempts + 1]_vars
  /\ [][\A s \in DOMAIN sockets :
          (Closes(s) /\ reconnectAttempts = MaxReconnectAttempts) =>
            /\ timers' = timers
            /\ sockets' = [sockets EXCEPT ![s] = "CLOSED"]
            /\ ws' = 0
            /\ reconnectAttempts' = reconnectAttempts]_vars

\* One more close than the maximum allows reconnects, none of the connections
\* ever open: the budget is used up, nothing is pending, nothing is live.
C7_Witness ==
  /\ reconnectAttempts = MaxReconnectAttempts
  /\ Len(sockets) = MaxReconnectAttempts + 1
  /\ \A s \in DOMAIN sockets : sockets[s] = "CLOSED"
  /\ ws = 0
  /\ timers = 0

\* C8 (SpecClient): a close event of the client's one connection that finds
\* no timer pending and the counter below the maximum schedules a reconnect
\* timer.
C8_CloseSchedulesReconnect ==
  [][\A s \in DOMAIN sockets :
       ( /\ Closes(s)
         /\ \A o \in DOMAIN sockets \ {s} : sockets[o] = "CLOSED"
         /\ timers = 0
         /\ reconnectAttempts < MaxReconnectAttempts )
       => timers' = 1]_vars

\* C9 (SpecClient): at most one connection the client created is CONNECTING
\* or OPEN.
C9_OneLiveConnection == Cardinality(Live) <= 1

\* C10 (SpecClient): no exception escapes the message callback, and the data
\* handler is invoked for envelopes only.
C10_MalformedFrameDropped ==
  /\ ~uncaught
  /\ \A i \in DOMAIN delivered : JSONparse(delivered[i].text).envelope

\* The DUMMY_ADDRESS branch serves a request for device d in this step.
Removes(d) ==
  /\ Quiescent
  /\ d \in RemoveDevices
  /\ LET r == RemoveRequestFor[d] IN BoundaryRemove(r[1], r[2], r[3])

WellFormed(addresses) ==
  Len(addresses) > 0 /\ \A i \in DOMAIN addresses : isShardusAddress(addresses[i])
HasSentinel(addresses) == \E i \in DOMAIN addresses : addresses[i] = DUMMY_ADDRESS

\* Requests with a device token and well-formed addresses, the all-zero
\* address among them, whatever their push token.
SentinelRequests ==
  {r \in Requests : r[1] # "" /\ WellFormed(r[2]) /\ HasSentinel(r[2])}

InNoIndexEntry(d, index) == \A a \in DOMAIN index : d \notin index[a]

\* Every sentinel request reaches the removal, and each device has one.
SentinelReachesRemoval ==
  SentinelRequests = RemoveRequests /\ Devices \subseteq RemoveDevices

\* C11 (SpecBoundary): every request with a device token and well-formed
\* addresses that include the all-zero address reaches the removal, whatever
\* its push token; the removal leaves device D without a subscription and in
\* no index entry, installs and changes no other subscription, and, if D had
\* no subscription, changes nothing and is answered with success at once;
\* the removal that had to save is answered with success as well, with D
\* still absent.
C11_SentinelUnsubscribe ==
  /\ []SentinelReachesRemoval
  /\ [][\A D \in Devices :
          Removes(D) =>
            /\ response' \in {"REMOVED", Null}
            /\ D \notin DOMAIN subscriptions'
            /\ InNoIndexEntry(D, addressToDevices')
            /\ \A d \in DOMAIN subscriptions' :
                 d \in DOMAIN subscriptions /\ subscriptions'[d] = subscriptions[d]
            /\ D \notin DOMAIN subscriptions =>
                 /\ response' = "REMOVED"
                 /\ UNCHANGED <<subscriptions, addressToDevices, dataFile, calls>>]_vars
  /\ [][\A call \in InFlight :
          (call.pc = "remove_save" /\ calls' = Resume(call)) =>
            /\ response' = "REMOVED"
            /\ call.deviceToken \notin DOMAIN subscriptions'
            /\ InNoIndexEntry(call.deviceToken, addressToDevices')]_vars

\* A removal has been answered and saved: the registry and the snapshot are
\* empty, which only the save of a removal leaves behind.
C11_Witness ==
  /\ Quiescent
  /\ response = "REMOVED"
  /\ subscriptions = EmptyMap
  /\ addressToDevices = EmptyMap
  /\ failures = 0
  /\ dataFile.kind = "json"
  /\ dataFile.data.subscriptions = EmptyMap

\* C12 (SpecBoundary): in every state and for every device x,
\* removeSubscription(x) applied twice gives the registry it gives applied
\* once, and applied to a device without a subscription it gives the registry
\* it found; the request that removes a device without a subscription
\* changes neither registry nor snapshot, starts no save and is answered
\* with success.
C12_RemoveIdempotent ==
  /\ [](\A x \in Devices :
          LET once == removeSubscription(Current, x)
          IN /\ removeSubscription(once, x) = once
             /\ x \notin DOMAIN subscriptions => once = Current)
  /\ [][\A x \in Devices :
          (Removes(x) /\ x \notin DOMAIN subscriptions) =>
            /\ response' = "REMOVED"
            /\ UNCHANGED <<subscriptions, addressToDevices, dataFile, calls,
                           failures>>]_vars

\* A removal has been answered though no write was ever made: the snapshot
\* file does not exist and no write has failed.
C12_Witness ==
  /\ Quiescent
  /\ response = "REMOVED"
  /\ dataFile = FileAbsent
  /\ failures = 0
  /\ subscriptions = EmptyMap

\* The code each kind of invalid request is answered with.
CodesAsClaimed ==
  \A r \in Requests :
    /\ r[1] = "" => r \in RejectedWith["MISSING_DEVICE_TOKEN"]
    /\ (r[1] # "" /\ Len(r[2]) = 0) => r \in RejectedWith["MISSING_ADDRESSES"]
    /\ (r[1] # "" /\ Len(r[2]) > 0 /\ ~WellFormed(r[2]))
         => r \in RejectedWith["INVALID_ADDRESS"]
    /\ (r[1] # "" /\ WellFormed(r[2]) /\ ~HasSentinel(r[2])
          /\ ~isExpoPushToken(r[3]))
         => r \in RejectedWith["INVALID_EXPO_TOKEN"]

Served == response # Null \/ calls # EmptyBag

\* C14 (SpecBoundary): a service whose load found no snapshot file has an
\* empty registry when it starts to serve; a service whose load found a
\* snapshot file it cannot decode does not serve requests.  (No write has
\* failed: the file is the one the load found.)
C14_UndecodableSnapshotIsFatal ==
  /\ (~loading /\ dataFile.kind = "ENOENT" /\ ~Served) =>
        (subscriptions = EmptyMap /\ addressToDevices = EmptyMap)
  /\ (~loading /\ dataFile.kind = "garbage" /\ failures = 0) => ~Served

C16_FailedSaveLeavesSnapshot ==
  [][\A call \in InFlight :
       (failures' = failures + 1 /\ calls' # calls /\ Resume(call) \sqsubseteq calls') =>
         LET D == call.deviceToken
         IN /\ call.pc = "remove_save" =>
                 /\ UNCHANGED <<subscriptions, addressToDevices>>
                 /\ D \notin DOMAIN subscriptions'
                 /\ response' = "REMOVED"
            /\ call.pc = "add_save" =>
                 /\ UNCHANGED <<subscriptions, addressToDevices>>
                 /\ response' = "ADDED"
            /\ call.pc \in {"add_save", "add_remove_save"} =>
                 /\ D \in DOMAIN subscriptions'
                 /\ subscriptions'[D].addresses = Normalized(call.addresses)
                 /\ subscriptions'[D].expoPushToken = call.expoPushToken
            /\ dataFile' = dataFile]_vars

\* What a fresh service restores from the snapshot saveSubscriptions would
\* write of `subs` now.
Reloaded(subs) == Restore(EmptyMap, Serialize(subs, clock).subscriptions)

LocalErrors == {"No subscription found", "No Expo push token"}

\* This step starts a fan-out.
StartsFanout == fanout.phase # "running" /\ dispatchVars' # dispatchVars

\* This step is one in which the sendNotification call for device d returns.
GivesResult(d) ==
  /\ d \in DOMAIN results'
  /\ StartsFanout \/ d \notin DOMAIN results

\* This step is one in which sendNotification calls the provider with `send`.
Invokes(send) ==
  /\ send \in awaiting'
  /\ StartsFanout \/ send \notin awaiting

HasPushToken(d) ==
  d \in DOMAIN subscriptions /\ subscriptions[d].expoPushToken \notin {Null, ""}

\* C18 (SpecDispatch): every sendNotification call returns a result, none
\* raises; a call that returns without having awaited the provider is one
\* for a device without subscription or without push token and returns
\* success:false with the provider not invoked; the provider is invoked with
\* the push token stored for the device at that moment; a call that awaited
\* the provider returns success:false (no ticket, error ticket, exception)
\* or success:true with the ticket issued for that push token.
C18_SendNeverRaises ==
  /\ [](/\ fanout.phase # "aborted"
        /\ \A d \in DOMAIN results :
             /\ results[d].outcome = "returned"
             /\ results[d].info \in LocalErrors =>
                  ~results[d].success /\ invoked[d] = 0
             /\ results[d].success => invoked[d] = 1)
  /\ [][\A d \in Devices :
          GivesResult(d) =>
            IF \E send \in awaiting : send.deviceToken = d
            THEN \E send \in awaiting :
                   /\ send.deviceToken = d
                   /\ results'[d] \in
                        {Returned(FALSE, "No tickets returned"),
                         Returned(FALSE, "ticket error"),
                         Returned(FALSE, "thrown"),
                         Returned(TRUE, send.to)}
            ELSE /\ ~HasPushToken(d)
                 /\ results'[d] =
                      Returned(FALSE, IF d \in DOMAIN subscriptions
                                      THEN "No Expo push token"
                                      ELSE "No subscription found")
                 /\ invoked'[d] = 0]_vars
  /\ [][\A send \in awaiting' :
          Invokes(send) =>
            /\ HasPushToken(send.deviceToken)
            /\ send.to = subscriptions[send.deviceToken].expoPushToken]_vars

\* The sends for a receipt have all returned: dev2, which has no push token,
\* was refused without the provider, and dev1 got a ticket for its push token.
C18_Witness ==
  /\ fanout.kind = "receipt"
  /\ fanout.phase = "done"
  /\ DOMAIN results = Devices
  /\ results["dev2"] = Returned(FALSE, "No Expo push token")
  /\ invoked["dev2"] = 0
  /\ results["dev1"] = Returned(TRUE, "tokA")
  /\ invoked["dev1"] = 1

\* C19 (SpecDispatch): a broadcast goes to the devices subscribed when it
\* starts, the sends for a receipt to the devices the index gives for the
\* recipient; no fan-out is cut short; when it ends every device of the set
\* has its result, and the provider was invoked once for it unless its
\* sendNotification failed locally, which happens only to a device that at
\* that moment has no subscription or no push token; the provider is invoked
\* at most once per device.
C19_FanOutIsolation ==
  /\ [](/\ fanout.phase # "aborted"
        /\ fanout.phase = "running" => awaiting # {}
        /\ \A d \in Devices : invoked[d] <= 1
        /\ fanout.phase = "done" =>
             \A d \in NewSet(fanout.targets) :
               /\ d \in DOMAIN results
               /\ invoked[d] = 1 \/ results[d].info \in LocalErrors)
  /\ [][StartsFanout =>
          /\ fanout'.kind = "broadcast" =>
               NewSet(fanout'.targets) = DOMAIN subscriptions
          /\ fanout'.kind = "receipt" =>
               \E to \in ReceiptAddresses :
                 NewSet(fanout'.targets) = getDevicesForAddress(to)]_vars
  /\ [][\A d \in Devices :
          (GivesResult(d) /\ results'[d].info \in LocalErrors) =>
            ~HasPushToken(d)]_vars

\* A broadcast to two devices has ended: the provider threw for the first
\* and was invoked for the second all the same, which got its ticket.
C19_Witness ==
  /\ fanout.kind = "broadcast"
  /\ fanout.phase = "done"
  /\ Len(fanout.targets) = 2
  /\ results[fanout.targets[1]] = Returned(FALSE, "thrown")
  /\ results[fanout.targets[2]].success
  /\ invoked[fanout.targets[2]] = 1

\* C20 (SpecClient): onData(h) puts h in the one handler slot, which nothing
\* else changes; a frame that parses, received while the slot holds a
\* handler, is passed once to that handler and to no other; received while
\* the slot is empty it is passed to nobody and raises nothing; and nothing
\* but such a frame is ever passed to a handler.
C20_SingleHandlerSlot ==
  /\ [][\A h \in Handlers : OnData(h) => dataHandler' = h]_vars
  /\ [][dataHandler' # dataHandler =>
          dataHandler' \in Handlers /\ UNCHANGED delivered]_vars
  /\ [][\A s \in DOMAIN sockets, text \in Frames :
          (OnMessage(s, text) /\ ~JSONparse(text).throws) =>
            IF dataHandler # Null
            THEN delivered' =
                   Append(delivered, [handler |-> dataHandler, text |-> text])
            ELSE UNCHANGED <<delivered, uncaught>>]_vars
  /\ [][delivered' # delivered =>
          /\ dataHandler # Null
          /\ \E text \in Frames :
               /\ ~JSONparse(text).throws
               /\ delivered' =
                    Append(delivered, [handler |-> dataHandler, text |-> text])]_vars

\* Two frames have been passed on, the first to h1 and, after h2 replaced
\* it, the second to h2 alone.
C20_Witness ==
  /\ ~uncaught
  /\ dataHandler = "h2"
  /\ Len(delivered) = 2
  /\ delivered[1].handler = "h1"
  /\ delivered[2].handler = "h2"

\* C21 (SpecServing): in every state, with calls in flight or without, device
\* d is in the index entry of address a exactly if a is among the addresses
\* of d's subscription.
C21_IndexIsInverseAtAwaits == IsInverse(subscriptions, addressToDevices)

\* C22 (SpecClient): at most one reconnect timer is pending, and the
\* reconnect-in-progress flag is set whenever one is.
C22_OneTimerPending ==
  /\ timers <= 1
  /\ timers > 0 => isReconnecting

\* Socket s emits 'open' in this step.
Opens(s) == sockets[s] = "CONNECTING" /\ sockets'[s] = "OPEN"

\* C23 (SpecClient): the step in which a socket opens sets the attempt counter
\* to zero and clears the reconnect-in-progress flag, whatever they were; and
\* a close event that finds the counter and the flag as an open leaves them
\* schedules a reconnect, the first of a new budget.
C23_OpenResetsBudget ==
  /\ [][\A s \in DOMAIN sockets :
          Opens(s) => reconnectAttempts' = 0 /\ ~isReconnecting']_vars
  /\ [][\A s \in DOMAIN sockets :
          (Closes(s) /\ reconnectAttempts = 0 /\ ~isReconnecting) =>
            /\ timers' = timers + 1
            /\ reconnectAttempts' = 1
            /\ isReconnecting']_vars

\* The client's connection is open with a fresh budget after an outage: an
\* earlier connection is closed, and the first close of a run always takes
\* the counter to one, so the open found attempts used and reset them.
C23_Witness ==
  /\ ws # 0
  /\ sockets[ws] = "OPEN"
  /\ \E o \in DOMAIN sockets : sockets[o] = "CLOSED"
  /\ \A o \in DOMAIN sockets \ {ws} : sockets[o] = "CLOSED"
  /\ reconnectAttempts = 0
  /\ ~isReconnecting
  /\ timers = 0

\* C24 (SpecShutdown): once disconnect() has been called on a client whose
\* connection was open, with no reconnect timer pending, and as long as the
\* owner does not call connect() again, no reconnect timer is pending, the
\* client holds no connection (getConnectionState() is DISCONNECTED) and no
\* socket is connecting or open.
C24_DisconnectIsFinal ==
  shutdown => (timers = 0 /\ ws = 0 /\ Live = {})

\* C25 (SpecSequential): while addSubscription for a device that had a
\* subscription when the call began is in flight, the snapshot the call has
\* handed to fs.writeFile holds a subscription of that device, and so does
\* the snapshot file whenever a write of the call has put a snapshot there.
C25_SnapshotsAreCommitted ==
  \A call \in AddCalls :
    call.deviceToken \in DOMAIN pre =>
      /\ call.deviceToken \in DOMAIN call.data.subscriptions
      /\ (dataFile.kind = "json" /\ failures = 0) =>
           call.deviceToken \in DOMAIN dataFile.data.subscriptions

\* C26 (SpecServing): whenever no call is in flight, no write has failed and
\* the snapshot file holds a snapshot, the subscriptions a load would restore
\* from the file are the subscriptions in memory.
C26_QuiescentDurability ==
  (~loading /\ calls = EmptyBag /\ failures = 0 /\ dataFile.kind = "json") =>
    Restore(EmptyMap, dataFile.data.subscriptions) = subscriptions

\* C27 (SpecRegistry): the step in which loadSubscriptions finishes, taken
\* from a state in which the index is the exact inverse of the subscriptions
\* (whatever calls ran since construction), leads to a state in which it
\* still is.
C27_LoadKeepsIndex ==
  [][(loading /\ ~loading' /\ IsInverse(subscriptions, addressToDevices)) =>
       IsInverse(subscriptions', addressToDevices')]_vars

\* The addresses of device d in `subs`, none if it has no subscription.
AddressesOf(subs, d) == IF d \in DOMAIN subs THEN subs[d].addresses ELSE {}

\* What C28 says of the registry after addSubscription(D, addrs, P), `before`
\* being the subscriptions the call found and `indexBefore` their index.
FrameOfAdd(before, indexBefore, call, subs, index) ==
  LET D == call.deviceToken
      addrs == Normalized(call.addresses)
  IN /\ \A A \in DOMAIN before \ {D} :
          IF before[A].expoPushToken # call.expoPushToken
          THEN A \in DOMAIN subs /\ subs[A] = before[A]
          ELSE LET rest == before[A].addresses \ addrs
               IN IF rest = {}
                  THEN A \notin DOMAIN subs
                  ELSE /\ A \in DOMAIN subs
                       /\ subs[A] = [before[A] EXCEPT !.addresses = rest]
     /\ DOMAIN subs \subseteq DOMAIN before \cup {D}
     /\ \A a \in (DOMAIN indexBefore \cup DOMAIN index)
                   \ (addrs \cup AddressesOf(before, D)) :
          /\ a \in DOMAIN indexBefore
          /\ a \in DOMAIN index
          /\ index[a] = indexBefore[a]

\* C28 (SpecSequential): when addSubscription(D, addrs, P) completes, every
\* other device whose push token differs from P has the subscription it had;
\* every other device with push token P has lost exactly its addresses that
\* are in the normalized addrs, with push token and createdAt as they were
\* (and has no subscription if none is left); no further device appeared;
\* and the index entry of every address outside the normalized addrs and
\* outside D's previous addresses is as it was.
C28_FrameOfAdd ==
  [][\A call \in InFlight :
       AddCompletes(call) =>
         FrameOfAdd(pre, Rebuild(pre, EmptyMap), call,
                    subscriptions', addressToDevices')]_vars

\* An add call for a subscribed device is about to complete; it left alone
\* a device with another push token that claims one of the call's addresses,
\* and the index holds an address the call is not concerned with.
C28_Witness ==
  \E call \in InFlight :
    /\ call.pc = "add_save"
    /\ call.deviceToken \in DOMAIN pre
    /\ \E A \in DOMAIN pre \ {call.deviceToken} :
         /\ pre[A].expoPushToken # call.expoPushToken
         /\ pre[A].addresses \cap Normalized(call.addresses) # {}
         /\ A \in DOMAIN subscriptions
         /\ subscriptions[A] = pre[A]
    /\ \E a \in DOMAIN addressToDevices :
         a \notin Normalized(call.addresses) \cup pre[call.deviceToken].addresses

=============================================================================
